---- MODULE Spec2Model ----
(***************************************************************************)
(* Model of pyrestest/tester.py: the Endpoint accessor and the RestTester   *)
(* ownership-CRUD test suite.  The web framework (test client, ORM, the API *)
(* under test) and the subclass hooks are the environment: their results    *)
(* are drawn from small sets.                                               *)
(***************************************************************************)
EXTENDS Integers, Sequences, FiniteSets, TLC

(* ---------------------------------------------------------------- bounds *)
MaxUuid == 4

(* ------------------------------------------------------- Python values -- *)
None == [t |-> "none"]
IntV(n) == [t |-> "int", v |-> n]
StrV(s) == [t |-> "str", v |-> s]
UuidV(n) == [t |-> "uuid", v |-> n]

\* str(x)
Str(x) ==
  CASE x.t = "none" -> "None"
    [] x.t = "int"  -> ToString(x.v)
    [] x.t = "str"  -> x.v
    [] x.t = "uuid" -> "uuid-" \o ToString(x.v)
    [] x.t = "user" -> "user-" \o x.uuid

\* bool(x): the truth value Python gives x in `if x` and `x or y`
Truthy(x) ==
  CASE x.t = "none" -> FALSE
    [] x.t = "int"  -> x.v /= 0
    [] x.t = "str"  -> x.v /= ""
    [] OTHER        -> TRUE

\* uuid4 returning one value over and over
uuid4_repeating(n) == UuidV(1)

\* uuid.uuid4(): the n-th generated UUID; distinct calls give distinct values
uuid4(n) == UuidV(n)

\* a dict: keys in insertion order, and the value of each key
Dict(ks, f) == [keys |-> ks, val |-> f]
EmptyDict == Dict(<<>>, <<>>)
KeySet(d) == {d.keys[i] : i \in 1..Len(d.keys)}

(* ------------------------------------------------------------- Endpoint -- *)
Anonymous == None

\* Endpoint.__init__: a new APIClient, not authenticated
Endpoint_init(basename) == [basename |-> basename, client |-> [user |-> Anonymous]]

\* APIClient.force_authenticate(user)
force_authenticate(client, user) == [client EXCEPT !.user = user]

\* Endpoint.set_user
set_user(ep, user) ==
  IF Truthy(user) THEN [ep EXCEPT !.client = force_authenticate(ep.client, user)]
  ELSE ep

(* ------------------------------------------------------------ RestTester -- *)
\* the five operations the spec calls required
FiveOps == {"get_create_payload", "get_update_payload", "test_create",
            "test_list_by_owner", "test_delete"}

\* the methods of RestTester decorated with @abc.abstractmethod
AbstractMethods == {"get_create_payload", "get_update_payload", "test_create",
                    "test_list_by_owner"}

\* the three test stubs whose body is `raise NotImplementedError()`
TestStubs == {"test_create", "test_list_by_owner", "test_delete"}

\* abc.ABC instantiation: refused while an abstract method is not overridden
CanInstantiate(over) == AbstractMethods \subseteq over

\* the kinds of class a subclass may name as AUTH_USER_MODEL: one whose `id`
\* attribute is its `uuid`, and one whose `id` is a separate primary key that
\* an unsaved instance does not have yet
AuthUserModels == {"IdIsUuid", "IdUnsaved"}

\* AUTH_USER_MODEL(uuid=..., email=..., groups=[], is_active=..., is_staff=...)
AuthUserModel_new(kind, uuid, email, groups, is_active, is_staff, subscription) ==
  [t |-> "user", uuid |-> uuid,
   id |-> IF kind = "IdIsUuid" THEN uuid ELSE None,
   email |-> email, groups |-> groups, is_active |-> is_active,
   is_staff |-> is_staff, subscription |-> subscription]

\* RestTester.auth_user(user_id); n is the next UUID uuid4() would return
auth_user(kind, user_id, n) ==
  AuthUserModel_new(kind,
                    StrV(Str(IF Truthy(user_id) THEN user_id ELSE uuid4(n))),
                    "foo@example.com", {}, TRUE, FALSE, EmptyDict)

\* whether auth_user(user_id) draws a UUID
auth_user_draws(user_id) == ~Truthy(user_id)

\* RestTester.assert_equal_item, from the i-th key of data on
RECURSIVE assert_equal_from(_, _, _)
assert_equal_from(item, data, i) ==
  IF i > Len(data.keys) THEN "ok"
  ELSE LET key == data.keys[i] IN
       IF key \notin DOMAIN item THEN "AttributeError"
       ELSE IF Str(item[key]) /= Str(data.val[key]) THEN "AssertionError"
       ELSE assert_equal_from(item, data, i + 1)

\* assert_equal_item comparing the values themselves, not their string forms
RECURSIVE assert_same_from(_, _, _)
assert_same_from(item, data, i) ==
  IF i > Len(data.keys) THEN "ok"
  ELSE LET key == data.keys[i] IN
       IF key \notin DOMAIN item THEN "AttributeError"
       ELSE IF item[key] /= data.val[key] THEN "AssertionError"
       ELSE assert_same_from(item, data, i + 1)

assert_equal_item_strict(item, data) == assert_same_from(item, data, 1)

assert_equal_item(item, data) == assert_equal_from(item, data, 1)

(* ------------------------------------------------- subclass hooks, ORM -- *)
NameVals == {IntV(1), StrV("a")}
OtherOwner == UuidV(0)
OtherVal == StrV("zzz")

\* a subclass's get_create_payload(user_id): synthesizes the owner when omitted
get_create_payload(user_id, n, name) ==
  Dict(<<"user_id", "name">>,
       [user_id |-> IF user_id = None THEN uuid4(n) ELSE user_id, name |-> name])

get_create_payload_draws(user_id) == user_id = None

\* a subclass's get_update_payload(payload, readonly): a mutated copy, which
\* with readonly=True also changes every field named in READONLY_FIELDS
get_update_payload(payload, readonly, ro, newName) ==
  Dict(payload.keys,
       [k \in KeySet(payload) |->
          IF readonly /\ k \in ro THEN (IF k = "user_id" THEN OtherOwner ELSE OtherVal)
          ELSE IF k = "name" /\ k \notin ro THEN newName
          ELSE payload.val[k]])

\* MODEL.objects.create(**payload): the item carries the payload's values
objects_create(payload, pk) ==
  [k \in KeySet(payload) \cup {"id"} |-> IF k = "id" THEN IntV(pk) ELSE payload.val[k]]

\* what the API under test may leave in the database after a PUT: per field
\* the old value, the value of the payload, or something else; and possibly
\* a second item
PutEffects == [user_id : {"kept", "applied", "other"},
               name : {"kept", "applied", "other"},
               duplicate : BOOLEAN]

AfterPut(item, payload, eff) ==
  [k \in DOMAIN item |->
     IF k = "id" THEN item[k]
     ELSE CASE eff[k] = "kept"    -> item[k]
            [] eff[k] = "applied" -> payload.val[k]
            [] eff[k] = "other"   -> OtherVal]

DbAfterPut(item, payload, eff) ==
  {AfterPut(item, payload, eff)}
    \cup (IF eff.duplicate THEN {objects_create(payload, 2)} ELSE {})

\* MODEL.objects.get(pk=pk)
objects_get(db, pk) == CHOOSE it \in db : it.id = pk

\* what the API under test may return as the body of a GET on an item: any
\* of the keys below in either order, each with the item's value in wire
\* (text) form or with some other value; "url" is not an attribute of the item
ResponseKeyOrders == {<<>>, <<"user_id">>, <<"name">>, <<"url">>,
                      <<"user_id", "name">>, <<"name", "user_id">>,
                      <<"name", "url">>, <<"url", "name">>,
                      <<"user_id", "name", "url">>}
Wire(v) == StrV(Str(v))
ResponseData(item) ==
  UNION {{Dict(ks, [k \in DOMAIN c |->
                     IF c[k] = "wire" /\ k \in DOMAIN item THEN Wire(item[k])
                     ELSE OtherVal]) :
            c \in [{ks[i] : i \in 1..Len(ks)} -> {"wire", "other"}]} :
         ks \in ResponseKeyOrders}

Statuses == {200, 401, 403}

(* ------------------------------------------------------------------ state *)
VARIABLES
  overridden,       \* the methods the concrete subclass overrides
  AUTH_USER_MODEL,  \* the subclass's AUTH_USER_MODEL (a kind of AuthUserModels)
  READONLY_FIELDS,  \* the subclass's READONLY_FIELDS
  suite,            \* "class", "instance", or "TypeError" (instantiation refused)
  endpoint,         \* self._endpoint: None or an Endpoint
  uuidCounter,      \* the next UUID uuid4() returns
  db,               \* the items MODEL.objects.all() holds
  phase,            \* "idle", "ready" (set up), "custom" (in a subclass's test body), "done"
  user,             \* the identity a subclass's test body built last
  setArg,           \* the argument of the last set_user call on this accessor
  req,              \* the last request issued through the accessor
  last,             \* what the test case that ran last did
  lastAuth,         \* the last auth_user call of a subclass's test body
  discarded         \* the identity of the accessor the last teardown discarded

vars == <<overridden, AUTH_USER_MODEL, READONLY_FIELDS, suite, endpoint,
          uuidCounter, db, phase, user, setArg, req, last, lastAuth, discarded>>

config == <<overridden, AUTH_USER_MODEL, READONLY_FIELDS>>

NoRequest == [issued |-> FALSE, verb |-> "", pk |-> None, auth |-> None,
              items |-> {}, setArg |-> "never"]

Request(verb, pk, ep, items, arg) ==
  [issued |-> TRUE, verb |-> verb, pk |-> pk, auth |-> ep.client.user,
   items |-> items, setArg |-> arg]

NoTest == [name |-> "", outcome |-> "", status |-> 0, ownerRef |-> None,
           identity |-> None, created |-> EmptyDict, payload |-> EmptyDict,
           item |-> <<>>, fetched |-> <<>>, data |-> EmptyDict, eq |-> "",
           count |-> 0]

NoAuthCall == [called |-> FALSE, arg |-> None, result |-> None]

\* the argument of a set_user call, as the history records it
ArgKind(u) == IF u = None THEN "none" ELSE "user"

Init ==
  /\ overridden \in SUBSET FiveOps
  /\ AUTH_USER_MODEL \in AuthUserModels
  /\ READONLY_FIELDS \in {{}, {"user_id"}}
  /\ suite = "class"
  /\ endpoint = None
  /\ uuidCounter = 1
  /\ db = {}
  /\ phase = "idle"
  /\ user = None
  /\ setArg = "never"
  /\ req = NoRequest
  /\ last = NoTest
  /\ lastAuth = NoAuthCall
  /\ discarded = Anonymous

\* instantiating the concrete subclass (abc.ABC refuses an abstract class)
Instantiate ==
  /\ suite = "class"
  /\ suite' = IF CanInstantiate(overridden) THEN "instance" ELSE "TypeError"
  /\ UNCHANGED <<config, endpoint, uuidCounter, db, phase, user, setArg, req,
                 last, lastAuth, discarded>>

\* RestTester.setup_method
setup_method ==
  /\ suite = "instance"
  /\ phase = "idle"
  /\ endpoint' = Endpoint_init("items")
  /\ phase' = "ready"
  /\ user' = None
  /\ setArg' = "never"
  /\ req' = NoRequest
  /\ last' = NoTest
  /\ lastAuth' = NoAuthCall
  /\ UNCHANGED <<config, suite, uuidCounter, db, discarded>>

\* a teardown that keeps the accessor
TornDown_keeps(ep) == ep

\* what teardown_method leaves in self._endpoint
TornDown(ep) == None

\* RestTester.teardown_method (the django_db scope of the test ends with it)
teardown_method ==
  /\ suite = "instance"
  /\ phase \in {"ready", "custom", "done"}
  /\ endpoint' = TornDown(endpoint)
  /\ discarded' = endpoint.client.user
  /\ db' = {}
  /\ phase' = "idle"
  /\ UNCHANGED <<config, suite, uuidCounter, user, setArg, req, last, lastAuth>>

(* ------------------------------------------------- the provided test cases *)
\* a test case ran: what stays as it was
TestFrame == UNCHANGED <<config, suite, user, lastAuth, discarded>>

\* RestTester.test_get_by_owner
test_get_by_owner ==
  /\ phase = "ready"
  /\ uuidCounter <= MaxUuid
  /\ \E name \in NameVals, status \in Statuses :
       LET user_id  == uuid4(uuidCounter)
           created  == get_create_payload(user_id, uuidCounter + 1, name)
           item     == objects_create(created, 1)
           identity == auth_user(AUTH_USER_MODEL, user_id, uuidCounter + 1)
           ep       == set_user(endpoint, identity)
       IN \E data \in ResponseData(item) :
            LET eq == IF status = 200 THEN assert_equal_item(item, data) ELSE ""
            IN /\ endpoint' = ep
               /\ setArg' = ArgKind(identity)
               /\ req' = Request("get", item.id, ep, {item.id}, ArgKind(identity))
               /\ db' = {item}
               /\ last' = [NoTest EXCEPT
                     !.name = "test_get_by_owner",
                     !.outcome = IF status /= 200 THEN "AssertionError"
                                 ELSE IF eq = "ok" THEN "passed" ELSE eq,
                     !.status = status, !.ownerRef = user_id,
                     !.identity = identity, !.created = created,
                     !.item = item, !.data = data, !.eq = eq]
  /\ uuidCounter' = uuidCounter + 1
  /\ phase' = "done"
  /\ TestFrame

\* RestTester.test_anonymous_user_not_allowed
test_anonymous_user_not_allowed ==
  /\ phase = "ready"
  /\ uuidCounter <= MaxUuid
  /\ \E name \in NameVals, status \in Statuses :
       LET created == get_create_payload(None, uuidCounter, name)
           item    == objects_create(created, 1)
       IN /\ req' = Request("get", item.id, endpoint, {item.id}, setArg)
          /\ db' = {item}
          /\ last' = [NoTest EXCEPT
                !.name = "test_anonymous_user_not_allowed",
                !.outcome = IF status = 401 THEN "passed" ELSE "AssertionError",
                !.status = status, !.created = created, !.item = item]
  /\ uuidCounter' = uuidCounter + 1
  /\ phase' = "done"
  /\ UNCHANGED <<endpoint, setArg>>
  /\ TestFrame

\* RestTester.test_get_non_owner_not_allowed
test_get_non_owner_not_allowed ==
  /\ phase = "ready"
  /\ uuidCounter + 1 <= MaxUuid
  /\ \E name \in NameVals, status \in Statuses :
       LET user_id  == uuid4(uuidCounter)
           created  == get_create_payload(user_id, uuidCounter + 1, name)
           item     == objects_create(created, 1)
           identity == auth_user(AUTH_USER_MODEL, uuid4(uuidCounter + 1),
                                 uuidCounter + 2)
           ep       == set_user(endpoint, identity)
       IN /\ endpoint' = ep
          /\ setArg' = ArgKind(identity)
          /\ req' = Request("get", item.id, ep, {item.id}, ArgKind(identity))
          /\ db' = {item}
          /\ last' = [NoTest EXCEPT
                !.name = "test_get_non_owner_not_allowed",
                !.outcome = IF status = 403 THEN "passed" ELSE "AssertionError",
                !.status = status, !.ownerRef = user_id,
                !.identity = identity, !.created = created, !.item = item]
  /\ uuidCounter' = uuidCounter + 2
  /\ phase' = "done"
  /\ TestFrame

\* _update authenticating as the owner whatever auth_user is
_update_as_owner(ep, owner, authUser, readonly, ro, n, name, newName) ==
  LET created == get_create_payload(owner.id, n, name)
      item    == objects_create(created, 1)
      payload == get_update_payload(created, readonly, ro, newName)
      ep2     == set_user(ep, owner)
  IN [item_id |-> item.id, payload |-> payload, endpoint |-> ep2,
      created |-> created, item |-> item, ownerRef |-> owner.id,
      request |-> Request("put", item.id, ep2, {item.id}, ArgKind(authUser))]

\* RestTester._update, up to the PUT it issues; n is the next UUID
_update(ep, owner, authUser, readonly, ro, n, name, newName) ==
  LET created == get_create_payload(owner.id, n, name)
      item    == objects_create(created, 1)
      payload == get_update_payload(created, readonly, ro, newName)
      ep2     == set_user(ep, authUser)
  IN [item_id |-> item.id, payload |-> payload, endpoint |-> ep2,
      created |-> created, item |-> item, ownerRef |-> owner.id,
      request |-> Request("put", item.id, ep2, {item.id}, ArgKind(authUser))]

\* the UUIDs auth_user() and then _update(owner, ...) draw
UpdateDraws(kind) == 1 + (IF kind = "IdIsUuid" THEN 0 ELSE 1)

\* RestTester.test_put_owner
test_put_owner ==
  /\ phase = "ready"
  /\ uuidCounter + UpdateDraws(AUTH_USER_MODEL) - 1 <= MaxUuid
  /\ \E name \in NameVals, status \in Statuses, eff \in PutEffects :
       \E newName \in NameVals \ {name} :
       LET owner   == auth_user(AUTH_USER_MODEL, None, uuidCounter)
           u       == _update(endpoint, owner, owner, FALSE, READONLY_FIELDS,
                              uuidCounter + 1, name, newName)
           after   == DbAfterPut(u.item, u.payload, eff)
           fetched == objects_get(after, u.item_id)
           eq      == IF status = 200 THEN assert_equal_item(fetched, u.payload)
                      ELSE ""
       IN /\ endpoint' = u.endpoint
          /\ setArg' = u.request.setArg
          /\ req' = u.request
          /\ db' = after
          /\ last' = [NoTest EXCEPT
                !.name = "test_put_owner",
                !.outcome = IF status /= 200 THEN "AssertionError"
                            ELSE IF eq = "ok" THEN "passed" ELSE eq,
                !.status = status, !.ownerRef = u.ownerRef,
                !.identity = owner, !.created = u.created,
                !.payload = u.payload, !.item = u.item, !.fetched = fetched,
                !.eq = eq, !.count = Cardinality(after)]
  /\ uuidCounter' = uuidCounter + UpdateDraws(AUTH_USER_MODEL)
  /\ phase' = "done"
  /\ TestFrame

\* RestTester.test_anonymous_not_allowed
test_anonymous_not_allowed ==
  /\ phase = "ready"
  /\ uuidCounter + UpdateDraws(AUTH_USER_MODEL) - 1 <= MaxUuid
  /\ \E name \in NameVals, status \in Statuses, eff \in PutEffects :
       \E newName \in NameVals \ {name} :
       LET owner == auth_user(AUTH_USER_MODEL, None, uuidCounter)
           u     == _update(endpoint, owner, None, FALSE, READONLY_FIELDS,
                            uuidCounter + 1, name, newName)
           after == DbAfterPut(u.item, u.payload, eff)
       IN /\ endpoint' = u.endpoint
          /\ setArg' = u.request.setArg
          /\ req' = u.request
          /\ db' = after
          /\ last' = [NoTest EXCEPT
                !.name = "test_anonymous_not_allowed",
                !.outcome = IF status = 401 THEN "passed" ELSE "AssertionError",
                !.status = status, !.ownerRef = u.ownerRef,
                !.created = u.created, !.payload = u.payload,
                !.item = u.item, !.count = Cardinality(after)]
  /\ uuidCounter' = uuidCounter + UpdateDraws(AUTH_USER_MODEL)
  /\ phase' = "done"
  /\ TestFrame

\* the loop of test_readonly_fields over READONLY_FIELDS: every assert holds
readonly_asserts_hold(item, payload, ro) ==
  \A key \in ro : item[key] /= payload.val[key]

\* RestTester.test_readonly_fields
test_readonly_fields ==
  /\ phase = "ready"
  /\ uuidCounter + UpdateDraws(AUTH_USER_MODEL) - 1 <= MaxUuid
  /\ \E name \in NameVals, status \in Statuses, eff \in PutEffects :
       \E newName \in NameVals \ {name} :
       LET owner   == auth_user(AUTH_USER_MODEL, None, uuidCounter)
           u       == _update(endpoint, owner, owner, TRUE, READONLY_FIELDS,
                              uuidCounter + 1, name, newName)
           after   == DbAfterPut(u.item, u.payload, eff)
           fetched == objects_get(after, u.item_id)
       IN /\ endpoint' = u.endpoint
          /\ setArg' = u.request.setArg
          /\ req' = u.request
          /\ db' = after
          /\ last' = [NoTest EXCEPT
                !.name = "test_readonly_fields",
                !.outcome =
                   IF status /= 200 THEN "AssertionError"
                   ELSE IF ~readonly_asserts_hold(fetched, u.payload, READONLY_FIELDS)
                        THEN "AssertionError"
                   ELSE IF Cardinality(after) /= 1 THEN "AssertionError"
                   ELSE "passed",
                !.status = status, !.ownerRef = u.ownerRef,
                !.identity = owner, !.created = u.created,
                !.payload = u.payload, !.item = u.item, !.fetched = fetched,
                !.count = Cardinality(after)]
  /\ uuidCounter' = uuidCounter + UpdateDraws(AUTH_USER_MODEL)
  /\ phase' = "done"
  /\ TestFrame

\* the bodies of RestTester.test_create, test_list_by_owner and test_delete:
\* run as inherited, or reached through super() from an override
test_stub(name) ==
  /\ phase = "ready"
  /\ last' = [NoTest EXCEPT !.name = name, !.outcome = "NotImplementedError"]
  /\ phase' = "done"
  /\ UNCHANGED <<endpoint, uuidCounter, db, setArg, req>>
  /\ TestFrame

(* ------------------------------ test bodies written by the subclass: they *)
(* build identities with auth_user and drive the accessor                   *)
UserIdArgs == {None, IntV(0), StrV(""), StrV("bob")}
Verbs == {"get", "get_items", "post", "put", "delete"}

\* self.auth_user(user_id) called by a subclass's test body
call_auth_user(user_id) ==
  /\ phase \in {"ready", "custom"}
  /\ auth_user_draws(user_id) => uuidCounter <= MaxUuid
  /\ LET identity == auth_user(AUTH_USER_MODEL, user_id, uuidCounter)
     IN /\ user' = identity
        /\ lastAuth' = [called |-> TRUE, arg |-> user_id, result |-> identity]
  /\ uuidCounter' = uuidCounter + (IF auth_user_draws(user_id) THEN 1 ELSE 0)
  /\ phase' = "custom"
  /\ UNCHANGED <<config, suite, endpoint, db, setArg, req, last, discarded>>

\* self._endpoint.set_user(u) called by a subclass's test body
call_set_user(u) ==
  /\ phase \in {"ready", "custom"}
  /\ endpoint' = set_user(endpoint, u)
  /\ setArg' = ArgKind(u)
  /\ phase' = "custom"
  /\ UNCHANGED <<config, suite, uuidCounter, db, user, req, last, lastAuth,
                 discarded>>

\* Endpoint.get / get_items / post / put / delete called by a subclass's
\* test body
call_request(verb) ==
  /\ phase \in {"ready", "custom"}
  /\ req' = Request(verb, IF verb \in {"get_items", "post"} THEN None ELSE IntV(1),
                    endpoint, {it.id : it \in db}, setArg)
  /\ phase' = "custom"
  /\ UNCHANGED <<config, suite, endpoint, uuidCounter, db, user, setArg, last,
                 lastAuth, discarded>>

Next ==
  \/ Instantiate
  \/ setup_method
  \/ teardown_method
  \/ test_get_by_owner
  \/ test_anonymous_user_not_allowed
  \/ test_get_non_owner_not_allowed
  \/ test_put_owner
  \/ test_anonymous_not_allowed
  \/ test_readonly_fields
  \/ \E name \in TestStubs : test_stub(name)
  \/ \E user_id \in UserIdArgs : call_auth_user(user_id)
  \/ \E u \in {None, user} : call_set_user(u)
  \/ \E verb \in Verbs : call_request(verb)

Spec == Init /\ [][Next]_vars

(* ----------------------------------------------------------------- claims *)
\* C1: every request issued after set_user(None), and before the next
\* set_user(identity), is anonymous.
C1_AnonymousAfterSetUserNone ==
  (req.issued /\ req.setArg = "none") => req.auth = Anonymous

\* C2: a subclass that is instantiated overrides all five required
\* operations, and the three test stubs do nothing but raise
\* NotImplementedError.
C2_AllFiveRequired ==
  /\ suite = "instance" => FiveOps \subseteq overridden
  /\ last.name \in TestStubs => last.outcome = "NotImplementedError"

\* C3: test_get_by_owner passes only if the status is 200 and every key of
\* the create payload came back through the API with a stringwise equal value.
C3_EveryCreateKeyChecked ==
  (last.name = "test_get_by_owner" /\ last.outcome = "passed") =>
     /\ last.status = 200
     /\ \A k \in KeySet(last.created) :
          /\ k \in KeySet(last.data)
          /\ Str(last.data.val[k]) = Str(last.created.val[k])

\* C4: test_readonly_fields passes only if the PUT returned 200, every
\* read-only field of the re-fetched item has the value it had before the
\* PUT, and exactly one item is persisted.
C4_ReadonlyUnchanged ==
  (last.name = "test_readonly_fields" /\ last.outcome = "passed") =>
     /\ last.status = 200
     /\ \A k \in READONLY_FIELDS : last.fetched[k] = last.item[k]
     /\ last.count = 1

\* C5: in every owner test case the owner reference given to
\* get_create_payload is the identifier auth_user gave the identity that
\* authenticates the request.
OwnerTests == {"test_get_by_owner", "test_put_owner", "test_readonly_fields"}
C5_RequestByOwner ==
  last.name \in OwnerTests =>
     /\ req.auth = last.identity
     /\ Str(last.ownerRef) = Str(last.identity.uuid)

\* C10: auth_user(user_id) gives the identity the string form of every
\* supplied user_id as identifier, a generated one only when user_id is
\* omitted, and always an empty group set, active and not staff.
C10_SuppliedIdIsKept ==
  lastAuth.called =>
     /\ lastAuth.arg /= None => lastAuth.result.uuid = StrV(Str(lastAuth.arg))
     /\ lastAuth.arg = None =>
          lastAuth.result.uuid = StrV(Str(uuid4(uuidCounter - 1)))
     /\ lastAuth.result.groups = {}
     /\ lastAuth.result.is_active
     /\ ~lastAuth.result.is_staff

\* the arguments of the last assert_equal_item call
EqTests == {"test_get_by_owner", "test_put_owner"}
EqCalled == last.name \in EqTests /\ last.eq /= ""
EqItem == IF last.name = "test_get_by_owner" THEN last.item ELSE last.fetched
EqData == IF last.name = "test_get_by_owner" THEN last.data ELSE last.payload

C7_FreshAccessorPerTest ==
  /\ phase = "idle" => endpoint = None
  /\ phase = "ready" => (endpoint /= None /\ endpoint.client.user = Anonymous)
  /\ (req.issued /\ req.setArg = "never") => req.auth = Anonymous

\* an anonymous request in a test case that follows one whose accessor was
\* authenticated when it was discarded
C7_Witness ==
  /\ discarded /= Anonymous
  /\ phase \in {"custom", "done"}
  /\ req.issued
  /\ req.setArg = "never"
  /\ req.auth = Anonymous

\* C8: in both anonymous-denied test cases the request is issued after the
\* item is persisted, by an accessor with no identity, and the test case
\* passes exactly when the status is 401.
AnonymousTests == {"test_anonymous_user_not_allowed", "test_anonymous_not_allowed"}
C8_AnonymousDenied ==
  last.name \in AnonymousTests =>
     /\ req.issued
     /\ req.pk = last.item.id
     /\ req.pk \in req.items
     /\ req.auth = Anonymous
     /\ last.outcome = "passed" <=> last.status = 401

\* the anonymous PUT, answered 401, after an earlier test case authenticated
C8_Witness ==
  /\ last.name = "test_anonymous_not_allowed"
  /\ last.outcome = "passed"
  /\ req.verb = "put"
  /\ discarded /= Anonymous

\* C9: in test_get_non_owner_not_allowed the GET is issued as an identity
\* whose identifier differs from the owner's, and the test case passes
\* exactly when the status is 403.
C9_NonOwnerDenied ==
  last.name = "test_get_non_owner_not_allowed" =>
     /\ req.issued
     /\ req.verb = "get"
     /\ req.pk = last.item.id
     /\ req.pk \in req.items
     /\ req.auth /= Anonymous
     /\ req.auth = last.identity
     /\ Str(req.auth.uuid) /= Str(last.ownerRef)
     /\ Str(last.item.user_id) = Str(last.ownerRef)
     /\ last.outcome = "passed" <=> last.status = 403

C9_Witness ==
  /\ last.name = "test_get_non_owner_not_allowed"
  /\ last.outcome = "passed"
  /\ last.status = 403

====
